---- MODULE Spec2Model ----
(***************************************************************************)
(* A model of scripts/publish_to_atproto.py: the publisher's command-line  *)
(* run (main, find_new_articles, publish_article, publish_index_post) as a *)
(* state machine, and the pure functions create_announcement_post and      *)
(* extract_article_metadata (phase detection) as operators.                *)
(***************************************************************************)
EXTENDS Integers, Sequences, FiniteSets, TLC

\* ------------------------------------------------------------ bounds
\* Number of HTML documents in the phase*/ directories.
NumDocs == 2
\* Largest wall-clock reading (epoch seconds, scaled).
MaxClock == 3

Docs == 1..NumDocs
\* Epoch seconds are positive: the cutoff 0.0 of a missing run-state file is
\* below every reading.
Times == 1..MaxClock

\* ------------------------------------------------------------ state
VARIABLES
    clock,          \* the wall clock, datetime.now().timestamp()
    mtime,          \* st_mtime of every document
    last_run_file,  \* content of .atproto_last_run, or Absent
    pc,             \* where the process is: idle, loop, index, exit
    mode,           \* the command-line mode of the running process
    new,            \* the list main iterates over
    i,              \* index in new of the next document to publish
    outcomes,       \* what happened in each publish_article call so far
    ret,            \* what each publish_article call returned
    calls,          \* the create_record calls made by this process
    digest,         \* the index post publish_index_post built
    exc,            \* where an exception left main uncaught, or "none"
    read_cutoff,    \* last_run as read by this process's find_new_articles
    prev_failed,    \* failed_last as it was when this process started
    failed_last,    \* documents that failed in the latest --new-only run
                    \* and were not modified since
    \* create_announcement_post: its arguments (a string is kept as its
    \* number of characters) and the record it returned
    title, excerpt, article_url, metadata, template, post,
    \* extract_article_metadata: the path given and the phase it found
    html_path, phase

pureVars == <<title, excerpt, article_url, metadata, template, post,
              html_path, phase>>

vars == <<clock, mtime, last_run_file, pc, mode, new, i, outcomes, ret,
          calls, digest, exc, read_cutoff, prev_failed, failed_last, pureVars>>

runVars == <<mode, new, i, outcomes, ret, calls, digest, exc, read_cutoff,
             prev_failed>>

\* ------------------------------------------------------------ values
Absent == <<>>
None == <<>>
NoDigest == [count |-> 0, listed |-> <<>>]
BlogCollection == "com.whitewind.blog.entry"
FeedCollection == "app.bsky.feed.post"
Outcomes == {"ok", "read_fail", "remote_fail"}

\* ------------------------------------------------------------ find_new_articles
\* last_run = 0.0 unless the file exists, then its content.
LoadCutoff(file) == IF file = Absent THEN 0 ELSE file[1]

\* A plausible slip: a document as old as the cutoff counts as new.
IsNewerOrEqual(mt, last_run) == mt >= last_run

\* html_file.stat().st_mtime > last_run
IsNewer(mt, last_run) == mt > last_run

AllDocs == [d \in Docs |-> d]

\* The documents of the phase directories that are newer than last_run.
ScanNew(mt, last_run) ==
    SelectSeq(AllDocs, LAMBDA d : IsNewer(mt[d], last_run))

\* A plausible slip: the cutoff is left as it was read.
StoreCutoffKeepOld(file, now) == file

\* f.write(str(datetime.now().timestamp())): the file is overwritten with
\* the wall clock, whatever it held.
StoreCutoff(file, now) == <<now>>

\* ------------------------------------------------------------ publish_article
\* A plausible slip: the except branch hands back a reference.
PublishArticleReturnAlways(outcome, uri) == uri

\* return uri in the try block, return None in the except block.
PublishArticleReturn(outcome, uri) ==
    IF outcome = "ok" THEN uri ELSE None

\* The create_record calls of one publish_article call: none when reading
\* or transforming the document raised, else one to the blog collection.
PublishArticleCalls(doc, outcome) ==
    IF outcome = "read_fail"
    THEN <<>>
    ELSE <<[collection |-> BlogCollection, kind |-> "article",
            doc |-> doc, ok |-> (outcome = "ok")]>>

\* resp.uri: the reference of the record just created.
FreshUri(log) == <<Len(log) + 1>>

\* ------------------------------------------------------------ main
\* A plausible variant: only the documents whose publish returned a URI.
IndexPostArgsPublished(articles, returned) ==
    SelectSeq(articles,
              LAMBDA d : \E k \in 1..Len(returned) :
                            articles[k] = d /\ returned[k] # None)

\* publisher.publish_index_post(new): the whole candidate list.
IndexPostArgs(articles, returned) == articles

RunInit ==
    /\ clock = 1
    /\ mtime = [d \in Docs |-> 1]
    /\ last_run_file = Absent
    /\ pc = "idle"
    /\ mode = "none"
    /\ new = <<>>
    /\ i = 1
    /\ outcomes = <<>>
    /\ ret = <<>>
    /\ calls = <<>>
    /\ digest = NoDigest
    /\ exc = "none"
    /\ read_cutoff = 0
    /\ prev_failed = {}
    /\ failed_last = {}

\* ------------------------------------------------------------ create_announcement_post
\* A string is modelled by its length in characters (Python's len); a
\* template by its name, the length of its literal text and its fields.
\* The phase names stand for the source's "phaseα", "phaseβ", "phaseγ".

\* if len(announcement) > 300
PostLimit == 300
\* excerpt[:100]
ExcerptKeep == 100
\* title[:50]
TitleKeep == 50
\* title[:20]
EncodedKeep == 20
\* len("...")
EllipsisLen == 3
\* len("WARPED") = len("STABLE")
TopologyLen == 6

\* ANNOUNCEMENT_TEMPLATES["phase_specific"]
PhaseSpecific == {"phase_alpha", "phase_beta", "phase_gamma"}

\* The keys of ANNOUNCEMENT_TEMPLATES.
TemplateKeys == {"default", "minimal", "phase_specific", "glitch",
                 "mathematical", "cryptic", "network_state"}

\* ANNOUNCEMENT_TEMPLATES["phase_specific"][phase]
PhaseVariant(ph) ==
    CASE ph = "phase_alpha" -> "phase_specific.phase_alpha"
      [] ph = "phase_beta" -> "phase_specific.phase_beta"
      [] ph = "phase_gamma" -> "phase_specific.phase_gamma"

\* Characters of a template outside its {fields}.
Literal(t) ==
    CASE t = "default" -> 34
      [] t = "minimal" -> 11
      [] t = "phase_specific.phase_alpha" -> 37
      [] t = "phase_specific.phase_beta" -> 62
      [] t = "phase_specific.phase_gamma" -> 36
      [] t = "glitch" -> 54
      [] t = "mathematical" -> 38
      [] t = "cryptic" -> 27
      [] t = "network_state" -> 63

\* The {fields} of a template; each occurs once.
Fields(t) ==
    CASE t = "default" -> {"title", "excerpt", "url"}
      [] t = "minimal" -> {"title", "url"}
      [] t = "phase_specific.phase_alpha" -> {"title", "excerpt", "url"}
      [] t = "phase_specific.phase_beta" -> {"title", "url"}
      [] t = "phase_specific.phase_gamma" -> {"title", "topology_status", "url"}
      [] t = "glitch" -> {"title", "url"}
      [] t = "mathematical" -> {"title", "excerpt", "url"}
      [] t = "cryptic" -> {"encoded_title", "url"}
      [] t = "network_state" -> {"title", "word_count", "url"}

\* len(template_text.format(**args)): unused keyword arguments are ignored.
FormatLen(t, args) ==
    LET part(f) == IF f \in Fields(t) THEN args[f] ELSE 0 IN
    Literal(t) + part("title") + part("excerpt") + part("url")
      + part("encoded_title") + part("word_count") + part("topology_status")

RECURSIVE Digits(_)
\* len(str(n)) of a word count.
Digits(n) == IF n < 10 THEN 1 ELSE 1 + Digits(n \div 10)

Min(a, b) == IF a < b THEN a ELSE b

\* (s[:keep] + "...") if len(s) > keep else s
Truncate(len, keep) == IF len > keep THEN keep + EllipsisLen ELSE len

\* The auto-select block: the template name and the template_text it
\* leaves bound ("unbound" when it assigns only the name).
AutoSelect(tmpl, md) ==
    IF tmpl # "auto"
    THEN [template |-> tmpl, template_text |-> "unbound"]
    ELSE IF md.has_glitch
    THEN [template |-> "glitch", template_text |-> "unbound"]
    ELSE IF md.has_math
    THEN [template |-> "mathematical", template_text |-> "unbound"]
    ELSE IF md.phase \in PhaseSpecific
    THEN [template |-> "auto", template_text |-> PhaseVariant(md.phase)]
    ELSE [template |-> "default", template_text |-> "unbound"]

\* "Choose template text": both branches assign template_text, whatever the
\* auto-select block left in it.
ChooseTemplateText(sel) ==
    IF sel.template \in TemplateKeys THEN sel.template ELSE "default"

\* The record create_announcement_post returns: the template rendered
\* first, the length of that render, whether the minimal template
\* replaced it, the title portion of the final text and the length of the
\* text field.
CreateAnnouncementPost(t, e, u, md, tmpl) ==
    LET template_text == ChooseTemplateText(AutoSelect(tmpl, md))
        args == [title |-> t,
                 excerpt |-> Truncate(e, ExcerptKeep),
                 url |-> u,
                 word_count |-> Digits(md.content_words),
                 encoded_title |-> Min(t, EncodedKeep),
                 topology_status |-> TopologyLen]
        first == FormatLen(template_text, args)
        short == [title |-> Truncate(t, TitleKeep), url |-> u]
    IN  IF first > PostLimit
        THEN [called |-> TRUE, template_text |-> template_text,
              first |-> first, minimal |-> TRUE,
              title_part |-> short.title,
              text |-> FormatLen("minimal", short)]
        ELSE [called |-> TRUE, template_text |-> template_text,
              first |-> first, minimal |-> FALSE,
              title_part |-> t,
              text |-> first]

NoPost == [called |-> FALSE, template_text |-> "unbound", first |-> 0,
           minimal |-> FALSE, title_part |-> 0, text |-> 0]

NoMetadata == [has_glitch |-> FALSE, has_math |-> FALSE, phase |-> "unknown",
               content_words |-> 0]

RenderIdle ==
    /\ title = 0
    /\ excerpt = 0
    /\ article_url = 0
    /\ metadata = NoMetadata
    /\ template = "default"
    /\ post = NoPost

\* ------------------------------------------------------------ extract_article_metadata, phase
\* A path is modelled by the phase markers in it, in order: each is the
\* word "phase" as written in lower case ("phase") or with an upper-case
\* letter in it ("PHASE"), followed by one letter. The letters alpha, beta,
\* gamma stand for the Greek lower-case letters of the stylized markers,
\* ALPHA, BETA, GAMMA for their capitals, x for any other character.
Letters == {"alpha", "ALPHA", "a", "A", "beta", "BETA", "b", "B",
            "gamma", "GAMMA", "g", "G", "x"}
Prefixes == {"phase", "PHASE"}
Segments == [prefix : Prefixes, letter : Letters]

\* str.lower() of one letter.
LowerLetter(c) ==
    CASE c = "ALPHA" -> "alpha"
      [] c = "A" -> "a"
      [] c = "BETA" -> "beta"
      [] c = "B" -> "b"
      [] c = "GAMMA" -> "gamma"
      [] c = "G" -> "g"
      [] OTHER -> c

\* html_path.lower()
Lower(path) ==
    [k \in 1..Len(path) |->
        [prefix |-> "phase", letter |-> LowerLetter(path[k].letter)]]

\* "phase" + c in path, for a lower-case marker.
Contains(path, c) ==
    \E k \in 1..Len(path) : path[k].prefix = "phase" /\ path[k].letter = c

\* The if/elif chain on the path: the stylized marker is looked up in
\* html_path, the ASCII one in html_path.lower().
ExtractPhase(path) ==
    LET lower == Lower(path) IN
    IF Contains(path, "alpha") \/ Contains(lower, "a") THEN "phase_alpha"
    ELSE IF Contains(path, "beta") \/ Contains(lower, "b") THEN "phase_beta"
    ELSE IF Contains(path, "gamma") \/ Contains(lower, "g") THEN "phase_gamma"
    ELSE "unknown"

PhaseIdle ==
    /\ html_path = <<>>
    /\ phase = "pending"
Init == RunInit /\ RenderIdle /\ PhaseIdle

\* --- the environment, between two runs of the script: main reads the
\* clock and the modification times only in find_new_articles, before its
\* loop, so what the environment does later in a run changes nothing the
\* run observes.
Tick ==
    /\ pc = "idle"
    /\ clock < MaxClock
    /\ clock' = clock + 1
    /\ UNCHANGED <<mtime, last_run_file, pc, runVars, failed_last>>
    /\ UNCHANGED pureVars

\* The system clock is set back (an NTP step, an operator).
ClockSetBack ==
    /\ pc = "idle"
    /\ \E t \in Times : t < clock /\ clock' = t
    /\ UNCHANGED <<mtime, last_run_file, pc, runVars, failed_last>>
    /\ UNCHANGED pureVars

\* A document is written: the file system stamps it with the clock.
Touch(d) ==
    /\ pc = "idle"
    /\ mtime[d] # clock
    /\ mtime' = [mtime EXCEPT ![d] = clock]
    /\ failed_last' = failed_last \ {d}
    /\ UNCHANGED <<clock, last_run_file, pc, runVars>>
    /\ UNCHANGED pureVars

\* --- main, --file
StartFile(d) ==
    /\ pc = "idle"
    /\ mode' = "file"
    /\ new' = <<d>>
    /\ pc' = "loop"
    /\ UNCHANGED <<clock, mtime, last_run_file, i, outcomes, ret, calls,
                   digest, exc, read_cutoff, prev_failed, failed_last>>
    /\ UNCHANGED pureVars

\* --- main, --all
StartAll ==
    /\ pc = "idle"
    /\ mode' = "all"
    /\ new' = AllDocs
    /\ pc' = "loop"
    /\ UNCHANGED <<clock, mtime, last_run_file, i, outcomes, ret, calls,
                   digest, exc, read_cutoff, prev_failed, failed_last>>
    /\ UNCHANGED pureVars

\* --- main, --new-only: new = find_new_articles(), the whole call
StartNewOnly ==
    /\ pc = "idle"
    /\ mode' = "new_only"
    /\ read_cutoff' = LoadCutoff(last_run_file)
    /\ new' = ScanNew(mtime, LoadCutoff(last_run_file))
    /\ last_run_file' = StoreCutoff(last_run_file, clock)
    /\ pc' = IF new' # <<>> THEN "loop" ELSE "exit"
    /\ prev_failed' = failed_last
    /\ failed_last' = {}
    /\ UNCHANGED <<clock, mtime, i, outcomes, ret, calls, digest, exc>>
    /\ UNCHANGED pureVars

\* --- one publisher.publish_article(a) call of main's loop
PublishArticle ==
    /\ pc = "loop"
    /\ i <= Len(new)
    /\ \E outcome \in Outcomes :
         /\ outcomes' = Append(outcomes, outcome)
         /\ ret' = Append(ret, PublishArticleReturn(outcome, FreshUri(calls)))
         /\ calls' = calls \o PublishArticleCalls(new[i], outcome)
         /\ failed_last' = IF mode = "new_only" /\ outcome # "ok"
                           THEN failed_last \cup {new[i]}
                           ELSE failed_last
    /\ i' = i + 1
    /\ pc' = IF i < Len(new) THEN "loop"
             ELSE IF mode = "new_only" THEN "index" ELSE "exit"
    /\ UNCHANGED <<clock, mtime, last_run_file, mode, new, digest, exc,
                   read_cutoff, prev_failed>>
    /\ UNCHANGED pureVars

\* --- publisher.publish_index_post(new), every metadata read succeeds:
\* None at once for an empty list, else the index record is built from
\* every listed document and one create_record call is made.
PublishIndexPost ==
    /\ pc = "index"
    /\ LET articles == IndexPostArgs(new, ret) IN
       IF articles = <<>>
       THEN UNCHANGED <<digest, calls>>
       ELSE /\ digest' = [count |-> Len(articles), listed |-> articles]
            /\ \E ok \in BOOLEAN :
                 calls' = Append(calls, [collection |-> BlogCollection,
                                         kind |-> "digest", doc |-> 0,
                                         ok |-> ok])
    /\ pc' = "exit"
    /\ UNCHANGED <<clock, mtime, last_run_file, mode, new, i, outcomes, ret,
                   exc, read_cutoff, prev_failed, failed_last>>
    /\ UNCHANGED pureVars

\* --- publish_index_post: extract_article_metadata raises on a document
\* that cannot be read; nothing catches it and main ends with it.
PublishIndexPostRaises ==
    /\ pc = "index"
    /\ IndexPostArgs(new, ret) # <<>>
    /\ exc' = "publish_index_post"
    /\ pc' = "exit"
    /\ UNCHANGED <<clock, mtime, last_run_file, mode, new, i, outcomes, ret,
                   calls, digest, read_cutoff, prev_failed, failed_last>>
    /\ UNCHANGED pureVars

\* --- the process ends; the next run is a new process
ProcessExit ==
    /\ pc = "exit"
    /\ pc' = "idle"
    /\ mode' = "none"
    /\ new' = <<>>
    /\ i' = 1
    /\ outcomes' = <<>>
    /\ ret' = <<>>
    /\ calls' = <<>>
    /\ digest' = NoDigest
    /\ exc' = "none"
    /\ read_cutoff' = 0
    /\ prev_failed' = {}
    /\ UNCHANGED <<clock, mtime, last_run_file, failed_last>>
    /\ UNCHANGED pureVars

Next ==
    \/ Tick
    \/ ClockSetBack
    \/ \E d \in Docs : Touch(d)
    \/ \E d \in Docs : StartFile(d)
    \/ StartAll
    \/ StartNewOnly
    \/ PublishArticle
    \/ PublishIndexPost
    \/ PublishIndexPostRaises
    \/ ProcessExit

Spec == Init /\ [][Next]_vars

\* ------------------------------------------------------------ properties of a run
InSeq(x, seq) == \E k \in 1..Len(seq) : seq[k] = x

\* The create_record calls of this process to collection c of kind k for d.
CallsTo(c, k, d) ==
    {j \in 1..Len(calls) :
        calls[j].collection = c /\ calls[j].kind = k /\ calls[j].doc = d}

CallsOfKind(c, k) ==
    {j \in 1..Len(calls) : calls[j].collection = c /\ calls[j].kind = k}

InNewOnlyRun == mode = "new_only" /\ pc # "idle"

\* C1: whenever publish_article created the content record of a document
\* (it returned a URI), exactly one create_record call to the feed
\* collection has been made for that document.
C1_AnnouncementAfterContent ==
    \A k \in 1..Len(ret) :
        ret[k] # None =>
            Cardinality(CallsTo(FeedCollection, "article", new[k])) = 1

\* C3: a publish_article call whose content phase failed (the document
\* could not be read or transformed, or create_record raised) returned
\* None, made no feed-collection call for the document, and returned to
\* its caller: every call made so far has a return value and no exception
\* of publish_article left main.
C3_ContentFailureIsolated ==
    /\ Len(ret) = Len(outcomes)
    /\ exc # "publish_article"
    /\ \A k \in 1..Len(outcomes) :
          outcomes[k] # "ok" =>
              /\ ret[k] = None
              /\ CallsTo(FeedCollection, "article", new[k]) = {}

C3_Witness ==
    /\ pc = "exit"
    /\ \E k \in 1..Len(outcomes) : outcomes[k] = "read_fail" /\ ret[k] = None
    /\ \E k \in 1..Len(outcomes) : outcomes[k] = "remote_fail" /\ ret[k] = None

\* C4: a finished --new-only run with N >= 1 candidates has attempted one
\* content publish per candidate, at most N feed publishes, and after
\* them exactly one digest content publish and exactly one digest feed
\* write; with N = 0 it made no remote write.
C4_BatchCounts ==
    (mode = "new_only" /\ pc = "exit") =>
        IF Len(new) = 0
        THEN calls = <<>>
        ELSE /\ Len(outcomes) = Len(new)
             /\ Cardinality(CallsOfKind(BlogCollection, "article")) <= Len(new)
             /\ Cardinality(CallsOfKind(FeedCollection, "article")) <= Len(new)
             /\ Cardinality(CallsOfKind(BlogCollection, "digest")) = 1
             /\ Cardinality(CallsOfKind(FeedCollection, "digest")) = 1

\* C7 as stated: no step ever makes the stored cutoff smaller.
C7_CutoffNeverDecreases ==
    [][LoadCutoff(last_run_file') >= LoadCutoff(last_run_file)]_vars

\* C7 amended: only find_new_articles changes the run-state file, each call
\* stores the wall clock it reads, and so the stored cutoff does not
\* decrease in a call made while the clock is not behind the stored value.
C7_CutoffFollowsClock ==
    [][/\ (last_run_file' # last_run_file) => (pc = "idle" /\ mode' = "new_only")
       /\ (pc = "idle" /\ mode' = "new_only") =>
             /\ last_run_file' = <<clock>>
             /\ (clock >= LoadCutoff(last_run_file) =>
                    LoadCutoff(last_run_file') >= LoadCutoff(last_run_file))]_vars

C7_Witness ==
    /\ InNewOnlyRun
    /\ read_cutoff > 0
    /\ LoadCutoff(last_run_file) > read_cutoff

\* The cutoff is in the file before anything is published and stays.
CutoffWrittenFirst == last_run_file = <<clock>>

\* find_new_articles returned exactly the documents newer than the cutoff
\* it read (the environment is still during a run, so mtime is as scanned).
CandidatesExact ==
    /\ \A d \in Docs : InSeq(d, new) <=> mtime[d] > read_cutoff
    /\ \A j, k \in 1..Len(new) : j < k => new[j] < new[k]

\* C9 as stated: in a --new-only run the cutoff is written before any
\* publish and whatever the outcomes, the candidates are exactly the
\* documents modified after the stored cutoff, and no document that failed
\* in the previous --new-only run and was not modified since is a candidate.
C9_FailedSkippedNextRun ==
    InNewOnlyRun =>
        /\ CutoffWrittenFirst
        /\ CandidatesExact
        /\ \A d \in prev_failed : ~InSeq(d, new)

\* C9 amended: the same, the last part for the documents whose modification
\* time does not exceed the cutoff the failing run wrote.
C9_FailedSkippedWhenCovered ==
    InNewOnlyRun =>
        /\ CutoffWrittenFirst
        /\ CandidatesExact
        /\ \A d \in prev_failed : mtime[d] <= read_cutoff => ~InSeq(d, new)

C9_Witness ==
    /\ InNewOnlyRun
    /\ pc = "exit"
    /\ \E d \in prev_failed : mtime[d] <= read_cutoff /\ ~InSeq(d, new)
    /\ new # <<>>

\* C10 as stated: every document listed in the digest is one whose content
\* publish succeeded in this run.
C10_DigestListsPublished ==
    \A k \in 1..Len(digest.listed) :
        \E j \in 1..Len(ret) : new[j] = digest.listed[k] /\ ret[j] # None

\* C10 amended: the digest lists exactly the candidates find_new_articles
\* returned, in their order and counted, after each was attempted, whether
\* or not its content publish succeeded.
C10_DigestListsCandidates ==
    digest # NoDigest =>
        /\ mode = "new_only"
        /\ digest.listed = new
        /\ digest.count = Len(new)
        /\ Len(ret) = Len(new)

C10_Witness ==
    /\ digest # NoDigest
    /\ \E j \in 1..Len(ret) : ret[j] = None
    /\ \E j \in 1..Len(ret) : ret[j] # None


\* ------------------------------------------------------------ create_announcement_post on every input
\* Longest title, excerpt, URL and word count tried.
MaxTitleLen == 120
MaxExcerptLen == 303
ShortUrlLen == 60
MaxUrlLen == 260
MaxWords == 12

TitleLens == {0, EncodedKeep + 1, TitleKeep, TitleKeep + 1, MaxTitleLen}
ExcerptLens == {0, ExcerptKeep, ExcerptKeep + 1, MaxExcerptLen}
UrlLens == {ShortUrlLen, MaxUrlLen}
Metadatas == [has_glitch : BOOLEAN, has_math : BOOLEAN,
              phase : PhaseSpecific \cup {"unknown"},
              content_words : {0, MaxWords}]
\* The choices of --announce-template, and a name that is no template.
Requested == {"default", "minimal", "glitch", "mathematical", "cryptic",
              "network_state", "auto", "unrecognized"}

InitRender ==
    /\ RunInit
    /\ PhaseIdle
    /\ title \in TitleLens
    /\ excerpt \in ExcerptLens
    /\ article_url \in UrlLens
    /\ metadata \in Metadatas
    /\ template \in Requested
    /\ post = NoPost

Render ==
    /\ ~post.called
    /\ post' = CreateAnnouncementPost(title, excerpt, article_url, metadata,
                                      template)
    /\ UNCHANGED <<clock, mtime, last_run_file, pc, runVars, failed_last,
                   title, excerpt, article_url, metadata, template,
                   html_path, phase>>

SpecRender == InitRender /\ [][Render]_vars

\* The template the stated priority selects for "auto".
AutoPriority(md) ==
    IF md.has_glitch THEN "glitch"
    ELSE IF md.has_math THEN "mathematical"
    ELSE IF md.phase \in PhaseSpecific THEN PhaseVariant(md.phase)
    ELSE "default"

\* C5: with the requested template "auto", the template text rendered is
\* the one the priority glitch, mathematical, phase-specific, default
\* selects for the metadata.
C5_AutoPriority ==
    (post.called /\ template = "auto") =>
        post.template_text = AutoPriority(metadata)

\* C6: the text of the returned feed record has at most 300 characters,
\* and a render longer than that was replaced by the minimal render with
\* a title portion of at most 53 characters.
C6_TextWithinLimit ==
    post.called =>
        /\ post.text <= PostLimit
        /\ post.first > PostLimit =>
              (post.minimal /\ post.title_part <= TitleKeep + EllipsisLen)

\* ------------------------------------------------------------ phase detection on every path
\* Longest path tried, in markers.
MaxSegs == 2

Paths == UNION {[1..n -> Segments] : n \in 0..MaxSegs}

InitPhase ==
    /\ RunInit
    /\ RenderIdle
    /\ html_path \in Paths
    /\ phase = "pending"

Extract ==
    /\ phase = "pending"
    /\ phase' = ExtractPhase(html_path)
    /\ UNCHANGED <<clock, mtime, last_run_file, pc, runVars, failed_last,
                   title, excerpt, article_url, metadata, template, post,
                   html_path>>

SpecPhase == InitPhase /\ [][Extract]_vars

\* A marker of the given phase, stylized or ASCII, in any letter case.
HasMarker(path, stylized, ascii) ==
    \E k \in 1..Len(path) : LowerLetter(path[k].letter) \in {stylized, ascii}

\* C8: the phase is that of the first of alpha, beta, gamma with a marker
\* (stylized or ASCII, in any letter case) anywhere in the path, and
\* unknown when the path holds no marker.
C8_PhaseCaseInsensitive ==
    phase # "pending" =>
        phase = IF HasMarker(html_path, "alpha", "a") THEN "phase_alpha"
                ELSE IF HasMarker(html_path, "beta", "b") THEN "phase_beta"
                ELSE IF HasMarker(html_path, "gamma", "g") THEN "phase_gamma"
                ELSE "unknown"

====
